---- MODULE Spec2Model ----
(***************************************************************************)
(* bevy-convars: the cvar path trie (CVarTreeNode), the registry            *)
(* (CVarManagement), the change-tick based default tracking (IsDefault,     *)
(* IsDefaultMut), the reflective setters, the layered config loader         *)
(* (ConfigLoader, CVarLoaderPlugin) and the saver (CVarSaveContext).        *)
(*                                                                          *)
(* A path "a.b.c" is the sequence <<"a","b","c">> of its split('.')         *)
(* segments.  A ComponentId is the index of the cvar declaration in         *)
(* CVarDecls.  A panic ends the program: the state it leaves behind is      *)
(* kept, `panicked` names the message, and no operation follows.            *)
(***************************************************************************)
EXTENDS Integers, Sequences, FiniteSets, TLC

\* ------------------------------------------------------------------ bounds

\* Highest world change tick: registration runs at tick 1, every later
\* operation on the world at a tick of its own.
MaxTick == 3

\* Most layers (extra layers, asset layers and the user config file together)
\* that a CVarLoaderPlugin is configured with.
MaxLayers == 2

\* The width, in bits, of the CVarFlags words that the flag operations are
\* handed: the low bits of the u64.
FlagWidth == 4

\* --------------------------------------------------------- program constants

\* CVarFlags bits.
CVarFlags_LOCAL == 0
CVarFlags_SAVED == 1
CVarFlags_MIRRORED == 2
CVarFlags_RUNTIME == 4

\* i32::MAX, the largest value of the inner type of the integer cvars.
I32Max == 2147483647

\* A CVarFlags word is the number its bits denote; FlagBits are the bit values
\* of a word, Bits(f) the ones set in f.
FlagBits == {2 ^ i : i \in 0..(FlagWidth - 1)}

Bits(f) == {b \in FlagBits : (f \div b) % 2 = 1}

RECURSIVE WordOf(_)
\* The word with exactly the bits of s set.
WordOf(s) == IF s = {} THEN 0 ELSE LET b == CHOOSE x \in s : TRUE IN b + WordOf(s \ {b})

\* BitOr for CVarFlags: self.0 | rhs.0.
BitOr(a, b) == WordOf(Bits(a) \cup Bits(b))

\* BitAnd for CVarFlags: self.0 & rhs.0.
BitAnd(a, b) == WordOf(Bits(a) \cap Bits(b))

\* A contains that asks for one common bit.
contains_any(a, b) == BitAnd(a, b) # 0

\* CVarFlags::contains: (a & b) == b.
contains(a, b) == BitAnd(a, b) = b

\* ------------------------------------------------------------------ values

\* A value of a cvar's inner type: i32, bool (0 / 1), a type without serde
\* support ("opaque"), or a list of layer paths ("paths": 0 is vec![], n > 0
\* is the list of the one asset layer whose document is Docs[n]).
Val(ty, v) == [ty |-> ty, v |-> v]

\* A TOML value as a document or an override holds it.  An integer is an i64,
\* written hi * 2^31 + v with 0 <= v < 2^31; a boolean is 0 / 1; a string is
\* named by its index (0 is "awawa"), and so is an array of strings (0 is [],
\* n > 0 is the array with the path of the one asset layer of Docs[n]).
Toml(kind, v) == [kind |-> kind, hi |-> 0, v |-> v]

TomlInt(hi, v) == [kind |-> "Integer", hi |-> hi, v |-> v]

I32Vals == {-5, 1, 2}

\* The values of an inner type that callers write.
ValsOf(ty) == IF ty = "i32" THEN {Val(ty, v) : v \in I32Vals} ELSE {Val(ty, 0), Val(ty, 1)}

NoVal == Val("none", 0)

NoToml == Toml("none", 0)

\* The TOML values that documents and overrides carry: integers inside and
\* outside the range of i32, booleans, and the string "awawa".
TomlVals ==
    {TomlInt(0, 1), TomlInt(0, 2), TomlInt(-1, I32Max - 4), TomlInt(1, 0),
     Toml("Boolean", 0), Toml("String", 0)}

\* ------------------------------------------------------- cvar declarations

\* The cvar!(...) declarations that plugins may register: path, flags, inner
\* type, declared default, and whether the inner type has ReflectDeserialize
\* (de) and ReflectSerialize (ser) type data ("input" is a type that has the
\* first and lacks the second).
CVarDecls == <<
    [path |-> <<"a", "b">>, flags |-> CVarFlags_RUNTIME, ty |-> "i32", default |-> -5, de |-> TRUE, ser |-> TRUE],
    [path |-> <<"a", "b">>, flags |-> CVarFlags_LOCAL, ty |-> "i32", default |-> 1, de |-> TRUE, ser |-> TRUE],
    [path |-> <<"a", "b", "c">>, flags |-> CVarFlags_LOCAL, ty |-> "bool", default |-> 1, de |-> TRUE, ser |-> TRUE],
    [path |-> <<"a", "b", "c", "d">>, flags |-> CVarFlags_LOCAL, ty |-> "bool", default |-> 0, de |-> TRUE, ser |-> TRUE],
    [path |-> <<"b">>, flags |-> BitOr(CVarFlags_SAVED, CVarFlags_RUNTIME), ty |-> "i32", default |-> 2, de |-> TRUE, ser |-> TRUE],
    [path |-> <<"x">>, flags |-> CVarFlags_LOCAL, ty |-> "opaque", default |-> 0, de |-> FALSE, ser |-> FALSE],
    [path |-> <<"y">>, flags |-> CVarFlags_SAVED, ty |-> "opaque", default |-> 0, de |-> FALSE, ser |-> FALSE],
    [path |-> <<"c", "d">>, flags |-> CVarFlags_SAVED, ty |-> "i32", default |-> 1, de |-> TRUE, ser |-> TRUE],
    [path |-> <<"core", "config_layers">>, flags |-> CVarFlags_LOCAL, ty |-> "paths", default |-> 0,
     de |-> TRUE, ser |-> TRUE],
    [path |-> <<"w">>, flags |-> CVarFlags_SAVED, ty |-> "input", default |-> 0, de |-> TRUE, ser |-> FALSE]
>>

Cids == DOMAIN CVarDecls

\* Every path a caller may name: the declared ones, their namespaces, and
\* paths that lead nowhere.
\* The cvars that the plugins of the registry scenarios register.
RegistryCids == {1, 2, 3, 4, 5, 6, 7}

AllPaths ==
    {CVarDecls[c].path : c \in RegistryCids}
    \cup {<<"a">>, <<"b", "c">>, <<"c">>}

\* ------------------------------------------------------------------- state

VARIABLES
    tree,         \* CVarManagement.tree: node path -> node (the root Branch is implicit)
    resources,    \* CVarManagement.resources: ComponentId -> its ReflectCVar data
    cells,        \* the world's cvar resources: ComponentId -> value and change ticks
    change_tick,  \* the world's change tick
    panicked,     \* the panic that ended the program, or NoPanic
    last          \* the last operation, its arguments and what it returned

vars == <<tree, resources, cells, change_tick, panicked, last>>

NoPanic == [kind |-> "none", name |-> "", new_cvar |-> <<>>]

Panic(kind, name, new_cvar) == [kind |-> kind, name |-> name, new_cvar |-> new_cvar]

\* ---------------------------------------------------------------- the trie

Branch == [kind |-> "Branch", name |-> "", reg |-> 0]

Leaf(name, reg) == [kind |-> "Leaf", name |-> name, reg |-> reg]

Take(s, n) == SubSeq(s, 1, n)

IsPrefix(p, q) == Len(p) <= Len(q) /\ Take(q, Len(p)) = p

\* The node at a position of the trie; the root is a Branch (Default).
NodeAt(t, pos) == IF pos = <<>> THEN Branch ELSE t[pos]

\* CVarTreeNode::get_or_insert_branch on the node at `cur`.
get_or_insert_branch(t, cur, key, new_cvar) ==
    IF NodeAt(t, cur).kind = "Leaf"
    THEN [tree |-> t, panic |-> Panic("BranchIntoTerminating", NodeAt(t, cur).name, new_cvar)]
    ELSE IF Append(cur, key) \in DOMAIN t
         THEN [tree |-> t, panic |-> NoPanic]
         ELSE [tree |-> (Append(cur, key) :> Branch) @@ t, panic |-> NoPanic]

\* HashMap::insert of a Leaf under `cur`: the node that was at the key, with
\* everything below it, is replaced.
ReplaceWithLeaf(t, cur, key, reg) ==
    LET child == Append(cur, key)
        kept == {p \in DOMAIN t : ~IsPrefix(child, p)}
    IN  (child :> Leaf(key, reg)) @@ [p \in kept |-> t[p]]

\* CVarTreeNode::insert_leaf on the node at `cur`: the insert is made, and
\* the assert on what it replaced comes after it.
insert_leaf(t, cur, key, reg, new_cvar) ==
    IF NodeAt(t, cur).kind = "Leaf"
    THEN [tree |-> t, panic |-> Panic("LeafIntoTerminating", NodeAt(t, cur).name, new_cvar)]
    ELSE [tree |-> ReplaceWithLeaf(t, cur, key, reg),
          panic |-> IF Append(cur, key) \in DOMAIN t
                    THEN Panic("Duplicate", "", new_cvar)
                    ELSE NoPanic]

RECURSIVE InsertFrom(_, _, _, _)
\* The loop of CVarTreeNode::insert from segment idx on.
InsertFrom(t, segments, idx, id) ==
    LET cur == Take(segments, idx - 1)
    IN  IF idx = Len(segments)
        THEN insert_leaf(t, cur, segments[idx], id, segments)
        ELSE LET r == get_or_insert_branch(t, cur, segments[idx], segments)
             IN  IF r.panic # NoPanic THEN r ELSE InsertFrom(r.tree, segments, idx + 1, id)

\* CVarTreeNode::insert.
insert(t, name, id) == InsertFrom(t, name, 1, id)

None == 0

RECURSIVE GetFrom(_, _, _)
\* The loop of CVarTreeNode::get from segment idx on, then the final match.
GetFrom(t, name, idx) ==
    LET cur == Take(name, idx - 1)
    IN  IF idx > Len(name)
        THEN IF NodeAt(t, cur).kind = "Leaf" THEN NodeAt(t, cur).reg ELSE None
        ELSE IF NodeAt(t, cur).kind # "Branch" THEN None
             ELSE IF Take(name, idx) \notin DOMAIN t THEN None
                  ELSE GetFrom(t, name, idx + 1)

RECURSIVE GetLongestPrefixFrom(_, _, _)
\* A lookup that stops at the first leaf it meets on the way down.
GetLongestPrefixFrom(t, name, idx) ==
    LET cur == Take(name, idx - 1)
    IN  IF NodeAt(t, cur).kind = "Leaf" THEN NodeAt(t, cur).reg
        ELSE IF idx > Len(name) \/ Take(name, idx) \notin DOMAIN t THEN None
             ELSE GetLongestPrefixFrom(t, name, idx + 1)

get_stops_at_leaf(t, name) == GetLongestPrefixFrom(t, name, 1)

\* CVarTreeNode::get: the ComponentId at the path, or None.
get(t, name) == GetFrom(t, name, 1)


\* ------------------------------------------------------- change detection

\* A resource as World::insert_resource stores it at tick `this_run`.
NewCell(value, this_run) == [value |-> value, added |-> this_run, changed |-> this_run]

\* DetectChangesMut::set_changed, as Mut::into_inner, Mut::as_mut and
\* DerefMut do on a mutable access at tick `this_run`.
set_changed(cell, this_run) == [cell EXCEPT !.changed = this_run]

\* A set_added that moves the creation tick and leaves the change tick.
set_added_only(cell, this_run) == [cell EXCEPT !.added = this_run]

\* DetectChangesMut::set_added at tick `this_run`.
set_added(cell, this_run) == [cell EXCEPT !.added = this_run, !.changed = this_run]

\* IsDefault::is_default.
is_default(cell) == cell.added = cell.changed

\* CVarMeta::default_inner / Default for the cvar type: the declared default.
default_inner(cid) == Val(CVarDecls[cid].ty, CVarDecls[cid].default)

\* ------------------------------------------------------------ registration

\* The ReflectCVar type data of a declaration (FromType<T> for ReflectCVar).
ReflectCVar(cid) ==
    [path |-> CVarDecls[cid].path, flags |-> CVarDecls[cid].flags,
     inner_type |-> CVarDecls[cid].ty]

\* CVarManagement::register_cvar: the trie insert, and after it (when it did
\* not panic) the insert into `resources`.
register_cvar(t, res, cid) ==
    LET r == insert(t, CVarDecls[cid].path, cid)
    IN  [tree |-> r.tree,
         resources |-> IF r.panic = NoPanic THEN (cid :> ReflectCVar(cid)) @@ res ELSE res,
         panic |-> r.panic]

\* A build that asserts ReflectDeserialize only.
saved_assert_deserialize_only(cid) ==
    IF contains(CVarDecls[cid].flags, CVarFlags_SAVED) /\ ~CVarDecls[cid].de
    THEN Panic("LacksDeserialization", "", CVarDecls[cid].path)
    ELSE NoPanic

\* The asserts of the plugin's build for a cvar flagged SAVED: its inner type
\* has ReflectDeserialize, and it has ReflectSerialize.
saved_assert(cid) ==
    IF contains(CVarDecls[cid].flags, CVarFlags_SAVED) /\ ~CVarDecls[cid].de
    THEN Panic("LacksDeserialization", "", CVarDecls[cid].path)
    ELSE IF contains(CVarDecls[cid].flags, CVarFlags_SAVED) /\ ~CVarDecls[cid].ser
    THEN Panic("LacksSerialization", "", CVarDecls[cid].path)
    ELSE NoPanic

Op(op, path, raw, val, result) ==
    [op |-> op, path |-> path, raw |-> raw, val |-> val, result |-> result]

\* One cvar of a cvar_collection! plugin's build: insert_resource of the
\* default, register_cvar, then the asserts for a SAVED cvar.
Register(cid) ==
    /\ panicked = NoPanic
    /\ change_tick = 1
    /\ cid \notin DOMAIN cells
    /\ LET r == register_cvar(tree, resources, cid)
           p == IF r.panic # NoPanic THEN r.panic ELSE saved_assert(cid)
       IN  /\ cells' = (cid :> NewCell(default_inner(cid), change_tick)) @@ cells
           /\ tree' = r.tree
           /\ resources' = r.resources
           /\ panicked' = p
           /\ last' = Op("register", CVarDecls[cid].path, NoToml, Val("cid", cid),
                         IF p = NoPanic THEN "Ok" ELSE "Panic")
    /\ UNCHANGED change_tick

\* ------------------------------------------------------- reflective access

Ok(v) == [ok |-> TRUE, v |-> v]

Err == [ok |-> FALSE, v |-> NoVal]

\* ReflectDeserialize::deserialize of a TOML value into an inner type: an i32
\* takes an integer that fits its range, a bool takes a boolean.
deserialize(ty, raw) ==
    IF ty = "i32" /\ raw.kind = "Integer" /\ raw.hi = 0 THEN Ok(Val(ty, raw.v))
    ELSE IF ty = "i32" /\ raw.kind = "Integer" /\ raw.hi = -1
         THEN Ok(Val(ty, (raw.v - I32Max) - 1))
    ELSE IF ty = "bool" /\ raw.kind = "Boolean" THEN Ok(Val(ty, raw.v))
    ELSE IF ty = "paths" /\ raw.kind = "Array" THEN Ok(Val(ty, raw.v))
    ELSE Err

\* A try_apply with its two sides exchanged: the patch is checked and the
\* stored value kept.
try_apply_keeps_inner(inner, value) == IF value.ty = inner.ty THEN Ok(inner) ELSE Err

\* PartialReflect::try_apply on the inner value (a whole-value replace): it
\* takes a value of the same type only.
try_apply(inner, value) == IF value.ty = inner.ty THEN Ok(value) ELSE Err

\* ReflectCVar::reflect_apply on a cvar resource: reflect_inner_mut (field 0
\* of the tuple struct), then try_apply.
reflect_apply(cell, value) ==
    LET r == try_apply(cell.value, value)
    IN  IF r.ok THEN [cell |-> [cell EXCEPT !.value = r.v], result |-> "Ok"]
        ELSE [cell |-> cell, result |-> "FailedApply"]

\* A tail of the setters that reaches the resource through an access that
\* marks every cvar resource of the world changed.
apply_to_resource_marks_world(cl, cid, value, this_run) ==
    IF cid \notin DOMAIN cl THEN [cells |-> cl, result |-> "BadCVarType"]
    ELSE LET marked == [c \in DOMAIN cl |-> set_changed(cl[c], this_run)]
             r == reflect_apply(marked[cid], value)
         IN  [cells |-> [marked EXCEPT ![cid] = r.cell], result |-> r.result]

\* The tail shared by the setters: ReflectResource::reflect_mut, the
\* into_inner() on the Mut it gives (which marks the resource changed), then
\* reflect_apply.
apply_to_resource(cl, cid, value, this_run) ==
    IF cid \notin DOMAIN cl THEN [cells |-> cl, result |-> "BadCVarType"]
    ELSE LET r == reflect_apply(set_changed(cl[cid], this_run), value)
         IN  [cells |-> [cl EXCEPT ![cid] = r.cell], result |-> r.result]

\* CVarManagement::set_cvar_reflect.
set_cvar_reflect(t, res, cl, cvar, value, this_run) ==
    LET cid == get(t, cvar)
    IN  IF cid = None THEN [cells |-> cl, result |-> "UnknownCVar"]
        ELSE IF cid \notin DOMAIN res THEN [cells |-> cl, result |-> "MissingCid"]
        ELSE apply_to_resource(cl, cid, value, this_run)

\* A set_cvar_deserialize that runs the deserializer before it asks whether
\* the type has one.
set_cvar_deserialize_late_check(t, res, cl, cvar, value, this_run) ==
    LET cid == get(t, cvar)
    IN  IF cid = None THEN [cells |-> cl, result |-> "UnknownCVar"]
        ELSE IF cid \notin DOMAIN res THEN [cells |-> cl, result |-> "MissingCid"]
        ELSE LET value_patch == deserialize(res[cid].inner_type, value)
             IN  IF ~value_patch.ok THEN [cells |-> cl, result |-> "FailedDeserialize"]
                 ELSE IF ~CVarDecls[cid].de
                      THEN [cells |-> cl, result |-> "CannotDeserialize"]
                      ELSE apply_to_resource(cl, cid, value_patch.v, this_run)

\* CVarManagement::set_cvar_deserialize.
set_cvar_deserialize(t, res, cl, cvar, value, this_run) ==
    LET cid == get(t, cvar)
    IN  IF cid = None THEN [cells |-> cl, result |-> "UnknownCVar"]
        ELSE IF cid \notin DOMAIN res THEN [cells |-> cl, result |-> "MissingCid"]
        ELSE IF ~CVarDecls[cid].de THEN [cells |-> cl, result |-> "CannotDeserialize"]
        ELSE LET value_patch == deserialize(res[cid].inner_type, value)
             IN  IF ~value_patch.ok THEN [cells |-> cl, result |-> "FailedDeserialize"]
                 ELSE apply_to_resource(cl, cid, value_patch.v, this_run)

\* CVarManagement::get_cvar_reflect: the inner value at a path, or NoVal.
get_cvar_reflect(t, res, cl, cvar) ==
    LET cid == get(t, cvar)
    IN  IF cid = None \/ cid \notin DOMAIN res \/ cid \notin DOMAIN cl THEN NoVal
        ELSE cl[cid].value

\* ------------------------------------------------------------ operations

\* An operation on the world runs when the program has not panicked, at a
\* change tick of its own, change_tick + 1: a write made after registration
\* carries a later tick than the resource's creation (tests.rs,
\* read_write_default_convar_direct).
CanRun == panicked = NoPanic /\ change_tick < MaxTick

Ran == change_tick' = change_tick + 1 /\ UNCHANGED <<tree, resources, panicked>>

\* WorldExtensions::set_cvar_deserialize.
SetCVarDeserialize(cvar, value) ==
    /\ CanRun
    /\ LET r == set_cvar_deserialize(tree, resources, cells, cvar, value, change_tick + 1)
       IN  /\ cells' = r.cells
           /\ last' = Op("set_cvar_deserialize", cvar, value, NoVal, r.result)
    /\ Ran

\* WorldExtensions::set_cvar_reflect.
SetCVarReflect(cvar, value) ==
    /\ CanRun
    /\ LET r == set_cvar_reflect(tree, resources, cells, cvar, value, change_tick + 1)
       IN  /\ cells' = r.cells
           /\ last' = Op("set_cvar_reflect", cvar, NoToml, value, r.result)
    /\ Ran

\* WorldExtensions::set_cvar_with_override with the override (cvar, value).
SetCVarWithOverride(cvar, value) ==
    /\ CanRun
    /\ LET r == set_cvar_deserialize(tree, resources, cells, cvar, value, change_tick + 1)
       IN  /\ cells' = r.cells
           /\ last' = Op("set_cvar_with_override", cvar, value, NoVal, r.result)
    /\ Ran

\* A direct write through the resource: **world.resource_mut::<T>() = value.
WriteDirect(cid, value) ==
    /\ CanRun
    /\ cid \in DOMAIN cells
    /\ value.ty = CVarDecls[cid].ty
    /\ cells' = [cells EXCEPT ![cid] =
                    [set_changed(cells[cid], change_tick + 1) EXCEPT !.value = value]]
    /\ last' = Op("write_direct", CVarDecls[cid].path, NoToml, value, "Ok")
    /\ Ran

\* CVarMeta::set_to_default: the stored value becomes the declared default.
set_to_default(cell, cid) == [cell EXCEPT !.value = default_inner(cid)]

\* IsDefaultMut::set_is_default.
set_is_default(cell, this_run) == set_added(cell, this_run)

\* A reset_to_default that marks the cvar default without writing the default.
reset_to_default_mark_only(cell, cid, this_run) == set_added(set_changed(cell, this_run), this_run)

\* IsDefaultMut::reset_to_default: as_mut() marks the resource changed,
\* set_to_default writes the default, set_added marks it default.
reset_to_default(cell, cid, this_run) ==
    set_added(set_to_default(set_changed(cell, this_run), cid), this_run)

\* world.resource_mut::<T>().set_is_default().
SetIsDefault(cid) ==
    /\ CanRun
    /\ cid \in DOMAIN cells
    /\ cells' = [cells EXCEPT ![cid] = set_is_default(cells[cid], change_tick + 1)]
    /\ last' = Op("set_is_default", CVarDecls[cid].path, NoToml, NoVal, "Ok")
    /\ Ran

\* world.resource_mut::<T>().reset_to_default().
ResetToDefault(cid) ==
    /\ CanRun
    /\ cid \in DOMAIN cells
    /\ cells' = [cells EXCEPT ![cid] = reset_to_default(cells[cid], cid, change_tick + 1)]
    /\ last' = Op("reset_to_default", CVarDecls[cid].path, NoToml, NoVal, "Ok")
    /\ Ran

EmptyMap == [x \in {} |-> 0]

Init ==
    /\ tree = EmptyMap
    /\ resources = EmptyMap
    /\ cells = EmptyMap
    /\ change_tick = 1
    /\ panicked = NoPanic
    /\ last = Op("init", <<>>, NoToml, NoVal, "Ok")

\* Every value a caller may hand to set_cvar_reflect or write directly.
AllVals == ValsOf("i32") \cup ValsOf("bool") \cup ValsOf("opaque")

Next ==
    \/ \E cid \in RegistryCids : Register(cid)
    \/ \E cvar \in AllPaths, value \in TomlVals : SetCVarDeserialize(cvar, value)
    \/ \E cvar \in AllPaths, value \in AllVals : SetCVarReflect(cvar, value)
    \/ \E cvar \in AllPaths, value \in TomlVals : SetCVarWithOverride(cvar, value)
    \/ \E cid \in Cids, value \in AllVals : WriteDirect(cid, value)
    \/ \E cid \in Cids : SetIsDefault(cid)
    \/ \E cid \in Cids : ResetToDefault(cid)

Spec == Init /\ [][Next]_vars

\* ------------------------------------------------------- the config loader

\* toml_edit::Item as the scanner sees it: a table, or a value.
Table == [kind |-> "Table", raw |-> NoToml]

Value(raw) == [kind |-> "Value", raw |-> raw]

\* The TOML documents that layers hold, each a map from key path to item:
\*   1   [a] b = 1                 2   [a] b = 2
\*   3   b = 1, z = 1              4   b = "awawa"  [a] b = 2
\*   5   a = 1, b = 2, c = 1       6   x = 1  [b]
\*   7   a = 1  [c] d = 2          8   b = 2, x = 1
\*   9   [core] config_layers = ["layer3.toml"]
Docs == <<
    (<<"a">> :> Table) @@ (<<"a", "b">> :> Value(TomlInt(0, 1))),
    (<<"a">> :> Table) @@ (<<"a", "b">> :> Value(TomlInt(0, 2))),
    (<<"b">> :> Value(TomlInt(0, 1))) @@ (<<"z">> :> Value(TomlInt(0, 1))),
    (<<"b">> :> Value(Toml("String", 0))) @@ (<<"a">> :> Table)
        @@ (<<"a", "b">> :> Value(TomlInt(0, 2))),
    (<<"a">> :> Value(TomlInt(0, 1))) @@ (<<"b">> :> Value(TomlInt(0, 2)))
        @@ (<<"c">> :> Value(TomlInt(0, 1))),
    (<<"x">> :> Value(TomlInt(0, 1))) @@ (<<"b">> :> Table),
    (<<"a">> :> Value(TomlInt(0, 1))) @@ (<<"c">> :> Table)
        @@ (<<"c", "d">> :> Value(TomlInt(0, 2))),
    (<<"b">> :> Value(TomlInt(0, 2))) @@ (<<"x">> :> Value(TomlInt(0, 1))),
    (<<"core">> :> Table) @@ (<<"core", "config_layers">> :> Value(Toml("Array", 3)))
>>

DocIds == DOMAIN Docs

\* CVarTreeNode::children of the Branch at `pos`: its descendants.
children(t, pos) == {n \in DOMAIN t : Len(n) = Len(pos) + 1 /\ IsPrefix(pos, n)}

\* CVarTreeNode::is_leaf.
is_leaf(node) == node.kind = "Leaf"

\* The orders in which the iteration of a HashMap may yield a set of keys.
Orderings(S) ==
    {f \in [1..Cardinality(S) -> S] : \A i, j \in 1..Cardinality(S) : f[i] = f[j] => i = j}

\* A stage_leaf that stages the leaf under the path of its position.
stage_leaf_full_path(doc, res, t, n, user_config) ==
    IF contains(res[t[n].reg].flags, CVarFlags_SAVED) \/ ~user_config
    THEN <<[name |-> n, item |-> doc[n]]>>
    ELSE <<>>

\* The leaf at position n of the trie, met under its key in the document:
\* staged under the leaf's `name` (as the path that split('.') makes of it)
\* when it is SAVED or the document is no user config, skipped with a
\* warning otherwise.
stage_leaf(doc, res, t, n, user_config) ==
    IF contains(res[t[n].reg].flags, CVarFlags_SAVED) \/ ~user_config
    THEN <<[name |-> <<t[n].name>>, item |-> doc[n]]>>
    ELSE <<>>

RECURSIVE traverse(_, _, _, _, _)
RECURSIVE traverse_in_order(_, _, _, _, _, _)
\* The body of the loop of CVarDocScanner::traverse for the keys in one
\* iteration order, from its i-th key on: every output it may push.
traverse_in_order(doc, res, t, order, i, user_config) ==
    IF i > Len(order) THEN {<<>>}
    ELSE LET n == order[i]
             here == IF is_leaf(t[n]) THEN {stage_leaf(doc, res, t, n, user_config)}
                     ELSE IF doc[n].kind = "Table" THEN traverse(doc, res, t, n, user_config)
                     ELSE {<<>>}
         IN  {h \o rest : h \in here,
                          rest \in traverse_in_order(doc, res, t, order, i + 1, user_config)}

\* CVarDocScanner::traverse on the Branch at `pos` and the document table at
\* the same position: the children whose key the table has, in any order.
traverse(doc, res, t, pos, user_config) ==
    LET present == {n \in children(t, pos) : n \in DOMAIN doc}
    IN  UNION {traverse_in_order(doc, res, t, order, 1, user_config) :
                  order \in Orderings(present)}

\* CVarDocScanner::find_cvars: the lists of staged (name, item) pairs that
\* the traversal from the root may give.
find_cvars(doc, res, t, user_config) == traverse(doc, res, t, <<>>, user_config)

RECURSIVE apply_staged_keeps_going(_, _, _, _, _, _)
\* An apply loop that notes the error of a failed set and goes on with the
\* staged pairs after it.
apply_staged_keeps_going(t, res, cl, cvars, i, this_run) ==
    IF i > Len(cvars) THEN [cells |-> cl, result |-> "Ok"]
    ELSE IF cvars[i].item.kind = "Value"
         THEN LET r == set_cvar_deserialize(t, res, cl, cvars[i].name,
                                            cvars[i].item.raw, this_run)
                  rest == apply_staged_keeps_going(t, res, r.cells, cvars, i + 1, this_run)
              IN  IF r.result # "Ok" THEN [cells |-> rest.cells, result |-> r.result]
                  ELSE rest
         ELSE apply_staged_keeps_going(t, res, cl, cvars, i + 1, this_run)

RECURSIVE apply_staged(_, _, _, _, _, _)
\* The loop of ConfigLoader::apply over the staged pairs from the i-th on: a
\* value is set through set_cvar_deserialize under the staged name, the first
\* error ends the loop, an item that is no value is warned about and skipped.
apply_staged(t, res, cl, cvars, i, this_run) ==
    IF i > Len(cvars) THEN [cells |-> cl, result |-> "Ok"]
    ELSE IF cvars[i].item.kind = "Value"
         THEN LET r == set_cvar_deserialize(t, res, cl, cvars[i].name,
                                            cvars[i].item.raw, this_run)
              IN  IF r.result # "Ok" THEN r
                  ELSE apply_staged(t, res, r.cells, cvars, i + 1, this_run)
         ELSE apply_staged(t, res, cl, cvars, i + 1, this_run)

\* ConfigLoader::apply of a document: every outcome it may have, each with
\* the staged list (in the order the scanner gave it) that led to it.
apply(t, res, cl, doc, user_config, this_run) ==
    {LET r == apply_staged(t, res, cl, cvars, 1, this_run)
     IN  [cells |-> r.cells, result |-> r.result, staged |-> cvars] :
        cvars \in find_cvars(doc, res, t, user_config)}

\* The user_config flag under which the plugin applies the user config file.
user_file_is_user_config == TRUE

\* A layer of the plugin: where it comes from, its document, and whether the
\* asset or the file could be loaded and parsed.
Layer(src, doc, loads) == [src |-> src, doc |-> doc, loads |-> loads]

NoFile == Layer("none", 1, FALSE)

\* The layers of a plugin in the order CVarLoaderPlugin::build goes through
\* them: extra layers, asset layers, then the user config file.
LayersOf(extra_layers, asset_layers, user_config_file) ==
    extra_layers \o asset_layers
    \o (IF user_config_file = NoFile THEN <<>> ELSE <<user_config_file>>)

RECURSIVE build_from_stops_at_failure(_, _, _, _, _, _, _, _)
\* A build that gives up at the first layer that does not load or whose
\* apply returns an error.
build_from_stops_at_failure(t, res, cl, layers, i, results, staged, this_run) ==
    IF i > Len(layers) THEN {[cells |-> cl, results |-> results, staged |-> staged]}
    ELSE IF ~layers[i].loads
         THEN {[cells |-> cl, results |-> Append(results, "LoadFailed"),
                staged |-> Append(staged, <<>>)]}
         ELSE UNION {IF r.result # "Ok"
                     THEN {[cells |-> r.cells, results |-> Append(results, r.result),
                            staged |-> Append(staged, r.staged)]}
                     ELSE build_from_stops_at_failure(t, res, r.cells, layers, i + 1,
                                                      Append(results, r.result),
                                                      Append(staged, r.staged), this_run) :
                        r \in apply(t, res, cl, Docs[layers[i].doc],
                                    layers[i].src = "user" /\ user_file_is_user_config,
                                    this_run)}

RECURSIVE build_from(_, _, _, _, _, _, _, _)
\* CVarLoaderPlugin::build from the i-th layer on: a layer that does not load
\* is logged and skipped, an error of apply is logged, and the next layer
\* follows either way.
build_from(t, res, cl, layers, i, results, staged, this_run) ==
    IF i > Len(layers) THEN {[cells |-> cl, results |-> results, staged |-> staged]}
    ELSE IF ~layers[i].loads
         THEN build_from(t, res, cl, layers, i + 1, Append(results, "LoadFailed"),
                         Append(staged, <<>>), this_run)
         ELSE UNION {build_from(t, res, r.cells, layers, i + 1, Append(results, r.result),
                                Append(staged, r.staged), this_run) :
                        r \in apply(t, res, cl, Docs[layers[i].doc],
                                    layers[i].src = "user" /\ user_file_is_user_config,
                                    this_run)}

\* CVarLoaderPlugin::build, after the registrations of the startup.
LoaderBuild(extra_layers, asset_layers, user_config_file) ==
    /\ CanRun
    /\ LET layers == LayersOf(extra_layers, asset_layers, user_config_file)
       IN  \E r \in build_from(tree, resources, cells, layers, 1, <<>>, <<>>, change_tick + 1) :
              /\ cells' = r.cells
              /\ last' = Op("loader_build", <<>>, NoToml,
                            [layers |-> layers, results |-> r.results, staged |-> r.staged],
                            "Ok")
    /\ Ran

\* add_embedded_layer! with the file Docs[d]: the file is applied with
\* user_config = false, and an error of the apply fails the expect.
AddEmbeddedLayer(d) ==
    /\ CanRun
    /\ \E r \in apply(tree, resources, cells, Docs[d], FALSE, change_tick + 1) :
          /\ cells' = r.cells
          /\ panicked' = IF r.result = "Ok" THEN NoPanic
                         ELSE Panic("EmbeddedLayerFailed", "", <<>>)
          /\ last' = Op("add_embedded_layer", <<>>, NoToml,
                        [layers |-> <<Layer("embedded", d, TRUE)>>, results |-> <<r.result>>,
                         staged |-> <<r.staged>>],
                        IF r.result = "Ok" THEN "Ok" ELSE "Panic")
    /\ change_tick' = change_tick + 1
    /\ UNCHANGED <<tree, resources>>

\* The cvars that the plugins of the loader scenarios register.
LoadCids == {1, 5, 6, 8, 9}

\* The documents of the asset layers, of the user config file and of the
\* embedded layers.
AssetDocIds == {2, 3, 9}

UserDocIds == {3, 8, 9}

EmbeddedDocIds == {9}

AssetLayers == {Layer("asset", d, TRUE) : d \in AssetDocIds} \cup {Layer("asset", 1, FALSE)}

UserFiles == {Layer("user", d, TRUE) : d \in UserDocIds} \cup {Layer("user", 1, FALSE), NoFile}

\* Startup with a loader: plugins register cvars, core.config_layers may be
\* overridden and a layer embedded, and CVarLoaderPlugin is built, once, with
\* at most MaxLayers layers; a layer may be embedded after it too.
NextLoad ==
    \/ \E cid \in LoadCids : Register(cid)
    \/ /\ change_tick = 1
       /\ SetCVarWithOverride(CVarDecls[9].path, Toml("Array", 2))
    \/ /\ change_tick <= 2
       /\ \E d \in EmbeddedDocIds : AddEmbeddedLayer(d)
    \/ \E n_extra \in 0..MaxLayers :
          \E n_asset \in 0..(MaxLayers - n_extra) :
             \E extra_layers \in [1..n_extra -> {Layer("extra", d, TRUE) : d \in DocIds}],
                asset_layers \in [1..n_asset -> AssetLayers],
                user_config_file \in IF n_extra + n_asset < MaxLayers THEN UserFiles ELSE {NoFile} :
                /\ change_tick <= 2
                /\ last.op # "loader_build"
                /\ LoaderBuild(extra_layers, asset_layers, user_config_file)

SpecLoad == Init /\ [][NextLoad]_vars

\* ------------------------------------------------------------ saving cvars

\* Serialize for an inner value through toml_edit's ValueSerializer: the
\* TOML value that denotes it.
serialize(value) ==
    IF value.ty = "i32"
    THEN IF value.v >= 0 THEN TomlInt(0, value.v) ELSE TomlInt(-1, (value.v + I32Max) + 1)
    ELSE IF value.ty = "paths" THEN Toml("Array", value.v)
    ELSE Toml("Boolean", value.v)

\* The documents handed to CVarSaveContext::from_document; 1 is the blank
\* document of CVarSaveContext::blank.
\*   2   z = 1, b = 1  [c] d = 2, e = 1       3   c = 1       4   [b] z = 1
\*   5   [a] b = 1
SaveDocs == <<
    EmptyMap,
    (<<"z">> :> Value(TomlInt(0, 1))) @@ (<<"b">> :> Value(TomlInt(0, 1)))
        @@ (<<"c">> :> Table) @@ (<<"c", "d">> :> Value(TomlInt(0, 2)))
        @@ (<<"c", "e">> :> Value(TomlInt(0, 1))),
    (<<"c">> :> Value(TomlInt(0, 1))),
    (<<"b">> :> Table) @@ (<<"b", "z">> :> Value(TomlInt(0, 1))),
    (<<"a">> :> Table) @@ (<<"a", "b">> :> Value(TomlInt(0, 1)))
>>

RECURSIVE GetCVarEntryOverwriting(_, _, _)
\* A walk over the leading sections that puts a table wherever none is.
GetCVarEntryOverwriting(doc, path, idx) ==
    IF idx >= Len(path) THEN [doc |-> doc, ok |-> TRUE]
    ELSE LET section == Take(path, idx)
         IN  IF section \in DOMAIN doc /\ doc[section].kind = "Table"
             THEN GetCVarEntryOverwriting(doc, path, idx + 1)
             ELSE GetCVarEntryOverwriting(
                      (section :> Table) @@ [p \in {q \in DOMAIN doc : ~IsPrefix(section, q)} |-> doc[p]],
                      path, idx + 1)

get_cvar_entry_overwrites(doc, path) == GetCVarEntryOverwriting(doc, path, 1)

RECURSIVE GetCVarEntryFrom(_, _, _)
\* The loop of CVarSaveContext::get_cvar_entry over the leading sections,
\* from the idx-th on: a missing section becomes a table, a section that
\* holds no table ends the walk with the error.
GetCVarEntryFrom(doc, path, idx) ==
    IF idx >= Len(path) THEN [doc |-> doc, ok |-> TRUE]
    ELSE LET section == Take(path, idx)
         IN  IF section \notin DOMAIN doc
             THEN GetCVarEntryFrom((section :> Table) @@ doc, path, idx + 1)
             ELSE IF doc[section].kind = "Table" THEN GetCVarEntryFrom(doc, path, idx + 1)
                  ELSE [doc |-> doc, ok |-> FALSE]

\* CVarSaveContext::get_cvar_entry.
get_cvar_entry(doc, path) == GetCVarEntryFrom(doc, path, 1)

\* The assignment *entry.or_insert(Item::None) = Item::Value(..): the item at
\* the key, with whatever it held below it, gives way to the value.
AssignValue(doc, path, raw) ==
    LET kept == {p \in DOMAIN doc : ~IsPrefix(path, p)}
    IN  (path :> Value(raw)) @@ [p \in kept |-> doc[p]]

\* A save that inserts the value only where the key holds nothing yet.
save_cvar_inner_keeps_existing(doc, path, value) ==
    LET entry == get_cvar_entry(doc, path)
    IN  IF ~entry.ok THEN [doc |-> entry.doc, result |-> "MalformedConfigDuringWrite"]
        ELSE IF path \in DOMAIN entry.doc THEN [doc |-> entry.doc, result |-> "Ok"]
        ELSE [doc |-> AssignValue(entry.doc, path, serialize(value)), result |-> "Ok"]

\* CVarSaveContext::save_cvar_inner and save_cvar_inner_erased.
save_cvar_inner(doc, path, value) ==
    LET entry == get_cvar_entry(doc, path)
    IN  IF ~entry.ok THEN [doc |-> entry.doc, result |-> "MalformedConfigDuringWrite"]
        ELSE [doc |-> AssignValue(entry.doc, path, serialize(value)), result |-> "Ok"]

\* CVarManagement::iterate_cvar_types: the registered cvars.
iterate_cvar_types(res) == DOMAIN res

\* ReflectCVar::is_default_value on the resource with its change ticks.
is_default_value(cell) == is_default(cell)

RECURSIVE save_world_ignores_flags(_, _, _, _, _)
\* A save_world that does not look at the SAVED flag.
save_world_ignores_flags(doc, res, cl, types, i) ==
    IF i > Len(types) THEN [doc |-> doc, result |-> "Ok"]
    ELSE LET reg == types[i]
         IN  IF is_default_value(cl[reg])
             THEN save_world_ignores_flags(doc, res, cl, types, i + 1)
             ELSE LET r == save_cvar_inner(doc, res[reg].path, cl[reg].value)
                  IN  IF r.result # "Ok" THEN r
                      ELSE save_world_ignores_flags(r.doc, res, cl, types, i + 1)

RECURSIVE save_world_in_order(_, _, _, _, _)
\* The loop of CVarSaveContext::save_world over the registered cvars in one
\* iteration order, from the i-th on.
save_world_in_order(doc, res, cl, types, i) ==
    IF i > Len(types) THEN [doc |-> doc, result |-> "Ok"]
    ELSE LET reg == types[i]
         IN  IF ~contains(res[reg].flags, CVarFlags_SAVED)
             THEN save_world_in_order(doc, res, cl, types, i + 1)
             ELSE IF ~CVarDecls[reg].ser THEN [doc |-> doc, result |-> "Panic"]
             ELSE IF is_default_value(cl[reg])
             THEN save_world_in_order(doc, res, cl, types, i + 1)
             ELSE LET r == save_cvar_inner(doc, res[reg].path, cl[reg].value)
                  IN  IF r.result # "Ok" THEN r
                      ELSE save_world_in_order(r.doc, res, cl, types, i + 1)

\* CVarSaveContext::save_world on a context holding SaveDocs[d].
SaveWorld(d) ==
    /\ panicked = NoPanic
    /\ \E types \in Orderings(iterate_cvar_types(resources)) :
          LET r == save_world_in_order(SaveDocs[d], resources, cells, types, 1)
          IN  /\ last' = Op("save_world", <<>>, NoToml,
                            [before |-> SaveDocs[d], after |-> r.doc], r.result)
              /\ panicked' = IF r.result = "Panic"
                             THEN Panic("CannotSave", "", <<>>)
                             ELSE NoPanic
    /\ UNCHANGED <<tree, resources, cells, change_tick>>

\* CVarSaveContext::save_cvar(&cvar) with the cvar read from the world, on a
\* context holding SaveDocs[d]; the inner type is Serialize.
SaveCVar(cid, d) ==
    /\ panicked = NoPanic
    /\ cid \in DOMAIN cells
    /\ CVarDecls[cid].ser
    /\ LET r == save_cvar_inner(SaveDocs[d], CVarDecls[cid].path, cells[cid].value)
       IN  last' = Op("save_cvar", CVarDecls[cid].path, NoToml,
                      [before |-> SaveDocs[d], after |-> r.doc], r.result)
    /\ UNCHANGED <<tree, resources, cells, change_tick, panicked>>

\* CVarSaveContext::save_cvar_from_world::<T>(world).
SaveCVarFromWorld(cid, d) ==
    /\ panicked = NoPanic
    /\ cid \in DOMAIN cells
    /\ CVarDecls[cid].ser
    /\ LET r == save_cvar_inner(SaveDocs[d], CVarDecls[cid].path, cells[cid].value)
       IN  last' = Op("save_cvar_from_world", CVarDecls[cid].path, NoToml,
                      [before |-> SaveDocs[d], after |-> r.doc], r.result)
    /\ UNCHANGED <<tree, resources, cells, change_tick, panicked>>

RECURSIVE register_all(_, _, _, _)
\* The builds of the plugins of a fresh app for the cvars of `cids`: each
\* cvar is inserted with its default and registered.
register_all(t, res, cl, cids) ==
    IF cids = {} THEN [tree |-> t, resources |-> res, cells |-> cl]
    ELSE LET cid == CHOOSE c \in cids : \A o \in cids : c <= o
             r == register_cvar(t, res, cid)
         IN  register_all(r.tree, r.resources, (cid :> NewCell(default_inner(cid), 1)) @@ cl,
                          cids \ {cid})

\* save_world into CVarSaveContext::blank(), then, in a fresh app with the
\* same plugins, ConfigLoader::apply of the saved document as a user config.
SaveWorldThenLoadFresh ==
    /\ panicked = NoPanic
    /\ \E types \in Orderings(iterate_cvar_types(resources)) :
          LET saved == save_world_in_order(EmptyMap, resources, cells, types, 1)
              fresh == register_all(EmptyMap, EmptyMap, EmptyMap, DOMAIN resources)
          IN  /\ saved.result = "Ok"
              /\ \E r \in apply(fresh.tree, fresh.resources, fresh.cells, saved.doc, TRUE, 2) :
                    last' = Op("save_world_then_load", <<>>, NoToml,
                               [before |-> EmptyMap, after |-> saved.doc, loaded |-> r.cells],
                               r.result)
    /\ UNCHANGED <<tree, resources, cells, change_tick, panicked>>

\* The cvars that the plugins of the save scenarios register.
SaveCids == {1, 4, 5, 7, 8, 10}

\* A world whose cvars are written, reset, overridden and loaded, and saved
\* at any point in between.
NextSave ==
    \/ \E cid \in SaveCids : Register(cid)
    \/ \E cid \in SaveCids : WriteDirect(cid, Val("i32", 2))
    \/ \E cid \in SaveCids : ResetToDefault(cid)
    \/ \E cid \in {5, 7, 8} : SetCVarWithOverride(CVarDecls[cid].path, TomlInt(0, 1))
    \/ change_tick = 1 /\ LoaderBuild(<<Layer("extra", 3, TRUE)>>, <<>>, NoFile)
    \/ \E d \in DOMAIN SaveDocs : SaveWorld(d)
    \/ \E cid \in SaveCids, d \in DOMAIN SaveDocs : SaveCVar(cid, d)
    \/ \E cid \in SaveCids, d \in DOMAIN SaveDocs : SaveCVarFromWorld(cid, d)
    \/ SaveWorldThenLoadFresh

SpecSave == Init /\ [][NextSave]_vars

\* ------------------------------------------------------------ the claims

\* The handle registered for a path: the ComponentId whose registration put
\* its ReflectCVar data, with that path, into `resources`; None without one.
RegisteredAt(p) ==
    IF \E c \in DOMAIN resources : resources[c].path = p
    THEN CHOOSE c \in DOMAIN resources : resources[c].path = p
    ELSE None

\* C1: after successful registrations, get(P) is the handle registered for P
\* for every registered path P, and None for every other path: unregistered
\* ones, namespaces of registered paths, and extensions of registered paths.
C1_GetReturnsRegisteredHandle ==
    panicked = NoPanic => \A p \in AllPaths : get(tree, p) = RegisteredAt(p)

\* C1 witness: a.b and b are registered and found, while the namespace a and
\* the extensions a.b.c and b.c give None.
C1_Witness ==
    /\ panicked = NoPanic
    /\ get(tree, <<"a", "b">>) \in DOMAIN resources
    /\ get(tree, <<"b">>) \in DOMAIN resources
    /\ get(tree, <<"a">>) = None
    /\ get(tree, <<"a", "b", "c">>) = None
    /\ get(tree, <<"b", "c">>) = None

\* C2: registering a path P that is already registered panics with
\* "Attempted to insert a duplicate CVar. CVar in question is P" and leaves
\* the existing cvar's stored value and the handle the trie holds for P as
\* they were before the attempt.
C2_DuplicateRejectedUntouched ==
    [][\A p \in AllPaths :
          (last'.op = "register" /\ last'.path = p /\ get(tree, p) # None)
          => /\ panicked' = Panic("Duplicate", "", p)
             /\ get(tree', p) = get(tree, p)
             /\ cells'[get(tree, p)] = cells[get(tree, p)]]_vars

\* A registered leaf path lies strictly below or strictly above the path p.
Collides(p) ==
    \E c \in DOMAIN resources :
        /\ resources[c].path # p
        /\ IsPrefix(resources[c].path, p) \/ IsPrefix(p, resources[c].path)

\* C3: registering a path below an existing leaf (one or several segments
\* below), or a path that is a namespace of an existing leaf, panics naming
\* the new path, and every trie node that existed keeps its kind and handle.
C3_CollisionRejectedFirstKept ==
    [][\A p \in AllPaths :
          (last'.op = "register" /\ last'.path = p /\ Collides(p))
          => /\ panicked' # NoPanic
             /\ panicked'.new_cvar = p
             /\ \A n \in DOMAIN tree : n \in DOMAIN tree' /\ tree'[n] = tree[n]]_vars

\* C4: a trie node that exists stays, and never changes kind, by any later
\* insert.
C4_NodeKindStable ==
    [][\A n \in DOMAIN tree : n \in DOMAIN tree' /\ tree'[n].kind = tree[n].kind]_vars

\* The cvar a path names, by its registration.
TypeAt(p) == CVarDecls[RegisteredAt(p)].ty

\* The value a TOML literal denotes for an inner type.
ValueOfToml(ty, raw) ==
    IF ty = "i32" THEN Val(ty, (raw.v + raw.hi * I32Max) + raw.hi) ELSE Val(ty, raw.v)

\* A TOML literal is a well-formed value of an inner type.
WellFormed(ty, raw) ==
    \/ ty = "i32" /\ raw.kind = "Integer" /\ raw.hi \in {-1, 0}
    \/ ty = "bool" /\ raw.kind = "Boolean"
    \/ ty = "paths" /\ raw.kind = "Array"

\* C5: a successful (Normal) set_cvar_deserialize(P, V) followed by reading P
\* yields a value equal to V, whatever P held before.
C5_SetDeserializeThenRead ==
    (last.op = "set_cvar_deserialize" /\ last.result = "Ok")
    => /\ RegisteredAt(last.path) # None
       /\ get_cvar_reflect(tree, resources, cells, last.path)
              = ValueOfToml(TypeAt(last.path), last.raw)

\* C5 witness: after an earlier operation a.b is set to the literal 2 and
\* reads 2.
C5_Witness ==
    /\ last.op = "set_cvar_deserialize" /\ last.result = "Ok"
    /\ last.path = <<"a", "b">> /\ last.raw = TomlInt(0, 2)
    /\ change_tick = 3
    /\ get_cvar_reflect(tree, resources, cells, <<"a", "b">>) = Val("i32", 2)

\* C6: set_cvar_deserialize returns UnknownCVar for a path that is no
\* registered leaf, else CannotDeserialize for a type without deserializer,
\* else FailedDeserialize for a literal that is no value of the type, else
\* Ok; set_cvar_reflect of a value of another type on a registered cvar
\* returns FailedApply; none of them panics.
C6_SetErrorsInOrder ==
    /\ last.op = "set_cvar_deserialize"
       => /\ panicked = NoPanic
          /\ last.result =
                IF RegisteredAt(last.path) = None THEN "UnknownCVar"
                ELSE IF ~CVarDecls[RegisteredAt(last.path)].de THEN "CannotDeserialize"
                ELSE IF ~WellFormed(TypeAt(last.path), last.raw) THEN "FailedDeserialize"
                ELSE "Ok"
    /\ last.op = "set_cvar_reflect"
       => /\ panicked = NoPanic
          /\ last.result =
                IF RegisteredAt(last.path) = None THEN "UnknownCVar"
                ELSE IF last.val.ty # TypeAt(last.path) THEN "FailedApply"
                ELSE "Ok"

\* C6 witness: an integer beyond i32 handed to the registered i32 cvar b
\* fails to deserialize.
C6_Witness ==
    /\ last.op = "set_cvar_deserialize" /\ last.result = "FailedDeserialize"
    /\ last.path = <<"b">> /\ last.raw = TomlInt(1, 0)
    /\ RegisteredAt(<<"b">>) # None

\* The step is a Normal write to the cvar: a direct mutable access, or a set
\* through the path that returned Ok.
NormalWriteTo(cid) ==
    /\ last'.op \in {"write_direct", "set_cvar_deserialize", "set_cvar_reflect",
                     "set_cvar_with_override"}
    /\ last'.result = "Ok"
    /\ RegisteredAt(last'.path) = cid

\* The step marks the cvar default: set_is_default or reset_to_default.
MarkedDefault(cid) ==
    /\ last'.op \in {"set_is_default", "reset_to_default"}
    /\ RegisteredAt(last'.path) = cid

\* The step is a set through the path that returned an error.
FailedSet(cid) ==
    /\ last'.op \in {"set_cvar_deserialize", "set_cvar_reflect", "set_cvar_with_override"}
    /\ last'.result # "Ok"
    /\ RegisteredAt(last'.path) = cid

C8_ResetRestoresDefault ==
    (last.op = "reset_to_default" /\ RegisteredAt(last.path) # None)
    => /\ cells[RegisteredAt(last.path)].value = default_inner(RegisteredAt(last.path))
       /\ is_default(cells[RegisteredAt(last.path)])
       /\ get_cvar_reflect(tree, resources, cells, last.path)
              = Val(TypeAt(last.path), CVarDecls[RegisteredAt(last.path)].default)

\* C8 witness: a.b was written and then reset, at a tick after the write.
C8_Witness ==
    /\ last.op = "reset_to_default" /\ last.path = <<"a", "b">>
    /\ RegisteredAt(<<"a", "b">>) = 1
    /\ cells[1].added = 3
    /\ cells[1].value = Val("i32", -5)

\* C9: after set_cvar_with_override succeeds, the cvar at the override's
\* path holds the override's value and is_default is true for it.
C9_OverrideLooksDefault ==
    (last.op = "set_cvar_with_override" /\ last.result = "Ok")
    => /\ cells[RegisteredAt(last.path)].value = ValueOfToml(TypeAt(last.path), last.raw)
       /\ is_default(cells[RegisteredAt(last.path)])

\* A layer gives a value for the cvar: its document was loaded, holds a value
\* at the cvar's path, and the cvar passes the SAVED / user_config filter.
LayerSets(layer, cid) ==
    /\ layer.loads
    /\ resources[cid].path \in DOMAIN Docs[layer.doc]
    /\ Docs[layer.doc][resources[cid].path].kind = "Value"
    /\ layer.src # "user" \/ contains(resources[cid].flags, CVarFlags_SAVED)

\* The last layer of a list that gives a value for the cvar; 0 without one.
LastSetter(layers, cid) ==
    LET setters == {i \in 1..Len(layers) : LayerSets(layers[i], cid)}
    IN  IF setters = {} THEN 0 ELSE CHOOSE i \in setters : \A j \in setters : j <= i

\* C10: when CVarLoaderPlugin::build applied its layers (extra layers, asset
\* layers, user config file, in this order) and none gave an error, every
\* cvar holds the value of the last layer that sets its path, and a cvar set
\* by no layer holds the value it had before.
C10_LastLayerWins ==
    [][(/\ last'.op = "loader_build"
        /\ \A i \in 1..Len(last'.val.results) : last'.val.results[i] = "Ok")
       => \A cid \in DOMAIN resources :
             LET layers == last'.val.layers
                 i == LastSetter(layers, cid)
             IN  cells'[cid].value =
                    IF i = 0 THEN cells[cid].value
                    ELSE ValueOfToml(resources[cid].inner_type,
                                     Docs[layers[i].doc][resources[cid].path].raw)]_vars

\* ------------------------------------------------- the claims on the loader

\* The document holds a value at the path, below tables only.
DocSets(d, p) ==
    /\ p \in DOMAIN Docs[d]
    /\ Docs[d][p].kind = "Value"
    /\ \A k \in 1..(Len(p) - 1) :
          Take(p, k) \in DOMAIN Docs[d] /\ Docs[d][Take(p, k)].kind = "Table"

\* A build of the loader plugin with one layer, which was loaded.
OneLayer(l) ==
    l.op = "loader_build" /\ Len(l.val.layers) = 1 /\ l.val.layers[1].loads

\* C11: a document applied with user_config = true leaves a cvar without
\* SAVED that it names as it was; applied with user_config = false it sets
\* that cvar; a cvar with SAVED is set under both.
C11_UserConfigFilter ==
    [][OneLayer(last')
       => \A cid \in DOMAIN resources :
             LET layer == last'.val.layers[1]
                 p == resources[cid].path
             IN  DocSets(layer.doc, p)
                 => IF layer.src = "user" /\ ~contains(resources[cid].flags, CVarFlags_SAVED)
                    THEN cells'[cid] = cells[cid]
                    ELSE last'.val.results[1] = "Ok"
                         => cells'[cid].value =
                               ValueOfToml(resources[cid].inner_type, Docs[layer.doc][p].raw)]_vars

\* C12: the loader writes silently: after the layers of a build are applied,
\* every cvar they wrote is default, also when its value is not the declared
\* default.
C12_LoaderWritesSilently ==
    [][last'.op = "loader_build"
       => \A cid \in DOMAIN resources :
             cells'[cid] # cells[cid] => is_default(cells'[cid])]_vars

\* C14: the scanner stages exactly the registered cvars that the document
\* sets (and that pass the SAVED / user_config filter), each under its full
\* registered path; keys that match no registered path are no error, and
\* after an Ok each of these cvars holds the document's value.
C14_StagedUnderFullPath ==
    OneLayer(last)
    => LET layer == last.val.layers[1]
           cvars == last.val.staged[1]
           expected == {cid \in DOMAIN resources :
                          /\ DocSets(layer.doc, resources[cid].path)
                          /\ layer.src # "user" \/ contains(resources[cid].flags, CVarFlags_SAVED)}
       IN  /\ {cvars[k].name : k \in 1..Len(cvars)}
                 = {resources[cid].path : cid \in expected}
           /\ last.val.results[1] # "UnknownCVar"
           /\ last.val.results[1] = "Ok"
              => \A cid \in expected :
                    cells[cid].value =
                       ValueOfToml(resources[cid].inner_type,
                                   Docs[layer.doc][resources[cid].path].raw)

\* The document holds a value that is no table where the trie has a Branch.
NonTableAtBranch(d) ==
    {n \in DOMAIN tree : tree[n].kind = "Branch" /\ n \in DOMAIN Docs[d]
                         /\ Docs[d][n].kind = "Value"}

\* C15: a value that is no table at a Branch of the trie makes the scanner
\* skip that subtree only: apply returns no error for it, the cvars below the
\* branch keep their values, and every registered cvar outside it that the
\* document sets (each with a well-formed value) is set.
C15_NonTableSkipsSubtreeOnly ==
    [][(/\ OneLayer(last')
        /\ last'.val.layers[1].src # "user"
        /\ NonTableAtBranch(last'.val.layers[1].doc) # {}
        /\ \A cid \in DOMAIN resources :
              DocSets(last'.val.layers[1].doc, resources[cid].path)
              => /\ CVarDecls[cid].de
                 /\ WellFormed(resources[cid].inner_type,
                               Docs[last'.val.layers[1].doc][resources[cid].path].raw))
       => /\ last'.val.results[1] = "Ok"
          /\ \A cid \in DOMAIN resources :
                LET d == last'.val.layers[1].doc
                    p == resources[cid].path
                IN  /\ (\E n \in NonTableAtBranch(d) : IsPrefix(n, p))
                       => cells'[cid] = cells[cid]
                    /\ DocSets(d, p)
                       => cells'[cid].value = ValueOfToml(resources[cid].inner_type, Docs[d][p].raw)]_vars

\* What the set of one staged pair returns, by the cvar its name leads to.
EntryResult(e) ==
    IF e.item.kind # "Value" THEN "Ok"
    ELSE IF RegisteredAt(e.name) = None THEN "UnknownCVar"
    ELSE IF ~CVarDecls[RegisteredAt(e.name)].de THEN "CannotDeserialize"
    ELSE IF ~WellFormed(TypeAt(e.name), e.item.raw) THEN "FailedDeserialize"
    ELSE "Ok"

\* The index of the first staged pair whose set fails; Len + 1 without one.
FirstFailure(cvars) ==
    LET failing == {k \in 1..Len(cvars) : EntryResult(cvars[k]) # "Ok"}
    IN  IF failing = {} THEN Len(cvars) + 1
        ELSE CHOOSE k \in failing : \A j \in failing : k <= j

\* The value of a cvar after one document: that of the last staged pair for
\* it before the first failure, the value before the document without one.
ValueAfterLayer(cid, prior, cvars) ==
    LET setters == {j \in 1..(FirstFailure(cvars) - 1) :
                       cvars[j].item.kind = "Value" /\ RegisteredAt(cvars[j].name) = cid}
    IN  IF setters = {} THEN prior
        ELSE ValueOfToml(resources[cid].inner_type,
                         cvars[CHOOSE j \in setters : \A k \in setters : k <= j].item.raw)

RECURSIVE ValueAfterLayers(_, _, _, _)
ValueAfterLayers(cid, prior, staged, i) ==
    IF i > Len(staged) THEN prior
    ELSE ValueAfterLayers(cid, ValueAfterLayer(cid, prior, staged[i]), staged, i + 1)

\* C16: applying a document is not atomic: apply returns the error of the
\* first staged pair whose set fails, the pairs after it are not applied,
\* and the pairs before it as well as the layers applied earlier keep their
\* effect.
C16_ApplyStopsAtFirstError ==
    [][last'.op = "loader_build"
       => /\ \A i \in 1..Len(last'.val.layers) :
                last'.val.layers[i].loads
                => last'.val.results[i] =
                      IF FirstFailure(last'.val.staged[i]) > Len(last'.val.staged[i]) THEN "Ok"
                      ELSE EntryResult(last'.val.staged[i][FirstFailure(last'.val.staged[i])])
          /\ \A cid \in DOMAIN resources :
                cells'[cid].value = ValueAfterLayers(cid, cells[cid].value, last'.val.staged, 1)]_vars

\* C16 witness: the first layer set b to 1; the second staged b = 2 before
\* x = 1, set b, and failed on x, which cannot be deserialized.
C16_Witness ==
    /\ last.op = "loader_build"
    /\ last.val.results = <<"Ok", "CannotDeserialize">>
    /\ last.val.layers[1].doc = 3 /\ last.val.layers[2].doc = 8
    /\ Len(last.val.staged[2]) = 2 /\ last.val.staged[2][1].name = <<"b">>
    /\ cells[5].value = Val("i32", 2)
    /\ cells[6].value = default_inner(6)

\* ------------------------------------------------- the claims on saving

\* The first operation on the world after the registrations, a successful
\* override or a build of the loader, has just run.
OnlySilentWrites ==
    /\ change_tick = 2
    /\ \/ last.op = "set_cvar_with_override" /\ last.result = "Ok"
       \/ last.op = "loader_build"

\* C13: a SAVED cvar written only by loaded layers or overrides since its
\* registration counts as default for save-back: save_world into a blank
\* document right after them gives an empty document.
C13_SilentWritesNotSaved ==
    [][(OnlySilentWrites /\ last'.op = "save_world" /\ last'.val.before = EmptyMap)
       => last'.result = "Ok" /\ last'.val.after = EmptyMap]_vars

\* The registered cvars that save_world is to write.
ToSave == {cid \in DOMAIN resources :
              contains(resources[cid].flags, CVarFlags_SAVED) /\ ~is_default(cells[cid])}

\* The item is a value that denotes the cvar's current value.
HoldsValueOf(item, cid) ==
    /\ item.kind = "Value"
    /\ item.raw.kind = IF resources[cid].inner_type = "i32" THEN "Integer" ELSE "Boolean"
    /\ ValueOfToml(resources[cid].inner_type, item.raw) = cells[cid].value

\* C17: save_world into a blank document writes exactly the cvars that are
\* SAVED and not default, each at its nested table path with its current
\* value: nothing for an all-default registry or after reset_to_default, and
\* never a cvar without SAVED.
C17_SaveWorldWritesSavedNonDefault ==
    (last.op = "save_world" /\ last.val.before = EmptyMap)
    => /\ last.result = "Ok"
       /\ DOMAIN last.val.after =
             UNION {{Take(resources[cid].path, k) : k \in 1..Len(resources[cid].path)} :
                       cid \in ToSave}
       /\ \A cid \in ToSave :
             /\ HoldsValueOf(last.val.after[resources[cid].path], cid)
             /\ \A k \in 1..(Len(resources[cid].path) - 1) :
                   last.val.after[Take(resources[cid].path, k)] = Table

\* C17 witness: c.d (SAVED) and a.b (no SAVED) were both written; the save
\* into the blank document holds c.d = 2 in the table c and nothing else.
C17_Witness ==
    /\ last.op = "save_world" /\ last.val.before = EmptyMap
    /\ 1 \in DOMAIN cells /\ ~is_default(cells[1])
    /\ 5 \in DOMAIN cells /\ is_default(cells[5])
    /\ last.val.after = (<<"c">> :> Table) @@ (<<"c", "d">> :> Value(TomlInt(0, 2)))

\* C18: save_world into a document of the caller only inserts or updates the
\* key of each SAVED cvar that is not default: every other key of the
\* document keeps its item, also the keys at or below a table at a cvar's
\* path, and no key is removed.
C18_SaveWorldTouchesOnlyItsKeys ==
    last.op = "save_world"
    => \A p \in DOMAIN last.val.before :
          /\ p \in DOMAIN last.val.after
          /\ (\A cid \in ToSave : resources[cid].path # p)
             => last.val.after[p] = last.val.before[p]

\* A section before the last one of the path holds an item that is no table.
Conflict(doc, path) ==
    \E k \in 1..(Len(path) - 1) : Take(path, k) \in DOMAIN doc /\ doc[Take(path, k)].kind # "Table"

\* C19: writing a cvar at s1.s2...sn creates the missing tables s1..s(n-1);
\* when one of these sections holds an item that is no table the write fails
\* with MalformedConfigDuringWrite and every item of the document, the one
\* in the way included, is still there.
C19_IntermediateTables ==
    last.op \in {"save_cvar", "save_cvar_from_world"}
    => IF Conflict(last.val.before, last.path)
       THEN /\ last.result = "MalformedConfigDuringWrite"
            /\ \A p \in DOMAIN last.val.before :
                  p \in DOMAIN last.val.after /\ last.val.after[p] = last.val.before[p]
       ELSE /\ last.result = "Ok"
            /\ \A k \in 1..(Len(last.path) - 1) :
                  /\ Take(last.path, k) \in DOMAIN last.val.after
                  /\ last.val.after[Take(last.path, k)] = Table

\* C19 witness: a.b.c.d saved into `[a] b = 1`: the table a is passed, b is in
\* the way, the write fails and b = 1 is still there.
C19_Witness ==
    /\ last.op = "save_cvar" /\ last.path = <<"a", "b", "c", "d">>
    /\ last.result = "MalformedConfigDuringWrite"
    /\ last.val.before = SaveDocs[5]
    /\ last.val.after[<<"a", "b">>] = Value(TomlInt(0, 1))

\* C20: save_cvar and save_cvar_from_world write the cvar's current value at
\* its path, with or without the SAVED flag, default or not.
C20_SaveCVarIgnoresFlagAndDefault ==
    (last.op \in {"save_cvar", "save_cvar_from_world"} /\ last.result = "Ok")
    => /\ last.path \in DOMAIN last.val.after
       /\ HoldsValueOf(last.val.after[last.path], RegisteredAt(last.path))

\* C20 witness: a.b, without SAVED and default, is saved from the world into
\* the blank document as a.b = -5.
C20_Witness ==
    /\ last.op = "save_cvar_from_world" /\ last.result = "Ok"
    /\ last.path = <<"a", "b">>
    /\ is_default(cells[1])
    /\ last.val.before = EmptyMap
    /\ last.val.after[<<"a", "b">>] = Value(TomlInt(-1, I32Max - 4))

\* ------------------------------------------------------ override parsing

\* Longest override string, in characters, of the bounded inputs.
MaxOverrideLen == 4

\* An override string is the sequence of its characters.  The bounded inputs
\* are made of a letter, the path separator, '=', a digit, the string quote
\* and the array brackets.
OverrideChars == {"a", ".", "=", "3", "\"", "[", "]"}

\* The overrides that the documentation of the parser names: noequalsign,
\* a.b=][ and a.b=3.
OverrideExamples ==
    {<<"n", "o", "e", "q", "u", "a", "l", "s", "i", "g", "n">>,
     <<"a", ".", "b", "=", "]", "[">>,
     <<"a", ".", "b", "=", "3">>}

OverrideStrings ==
    UNION {[1..n -> OverrideChars] : n \in 0..MaxOverrideLen} \cup OverrideExamples

RECURSIVE FindLast(_, _, _)
\* The last position of the character c in s at or before i, or 0.
FindLast(s, c, i) ==
    IF i = 0 THEN 0 ELSE IF s[i] = c THEN i ELSE FindLast(s, c, i - 1)

\* str::rsplit_once: the split at the last delimiter.
rsplit_once(s, delimiter) ==
    LET i == FindLast(s, delimiter, Len(s))
    IN  IF i = 0 THEN [some |-> FALSE, left |-> <<>>, right |-> <<>>]
        ELSE [some |-> TRUE, left |-> SubSeq(s, 1, i - 1), right |-> SubSeq(s, i + 1, Len(s))]

RECURSIVE FindFirst(_, _, _)
\* The first position of the character c in s at or after i, or 0.
FindFirst(s, c, i) ==
    IF i > Len(s) THEN 0 ELSE IF s[i] = c THEN i ELSE FindFirst(s, c, i + 1)

\* str::split_once: the split at the first delimiter.
split_once(s, delimiter) ==
    LET i == FindFirst(s, delimiter, 1)
    IN  IF i = 0 THEN [some |-> FALSE, left |-> <<>>, right |-> <<>>]
        ELSE [some |-> TRUE, left |-> SubSeq(s, 1, i - 1), right |-> SubSeq(s, i + 1, Len(s))]

\* The TOML values that a value literal denotes: a string with its text, an
\* array with its items; an integer is a TomlInt.
TomlString(text) == [kind |-> "String", text |-> text]

TomlArray(items) == [kind |-> "Array", items |-> items]

RECURSIVE DecimalOf(_)
\* The number that a sequence of decimal digits denotes.
DecimalOf(s) ==
    IF s = <<>> THEN 0
    ELSE 10 * DecimalOf(SubSeq(s, 1, Len(s) - 1)) + (IF s[Len(s)] = "3" THEN 3 ELSE 0)

RECURSIVE Value_from_str(_)
\* toml_edit::Value::from_str on a string of OverrideChars (and letters): a
\* run of digits is an integer, "..." without a quote inside is a string,
\* [ ] around nothing or around one value is an array (there is no comma to
\* separate more), and everything else, the empty string too, is an error.
Value_from_str(s) ==
    IF s # <<>> /\ \A i \in 1..Len(s) : s[i] = "3"
    THEN [ok |-> TRUE, v |-> TomlInt(0, DecimalOf(s))]
    ELSE IF Len(s) >= 2 /\ s[1] = "\"" /\ s[Len(s)] = "\""
            /\ \A i \in 2..(Len(s) - 1) : s[i] # "\""
    THEN [ok |-> TRUE, v |-> TomlString(SubSeq(s, 2, Len(s) - 1))]
    ELSE IF Len(s) >= 2 /\ s[1] = "[" /\ s[Len(s)] = "]"
    THEN LET inner == SubSeq(s, 2, Len(s) - 1)
             item == Value_from_str(inner)
         IN  IF inner = <<>> THEN [ok |-> TRUE, v |-> TomlArray(<<>>)]
             ELSE IF item.ok THEN [ok |-> TRUE, v |-> TomlArray(<<item.v>>)]
             ELSE [ok |-> FALSE, v |-> NoToml]
    ELSE [ok |-> FALSE, v |-> NoToml]

\* CVarOverride(String, toml_edit::Value).
CVarOverride(path, value) == [path |-> path, value |-> value]

\* TryFrom<&str> for CVarOverride.
try_from(value) ==
    LET parts == split_once(value, "=")
        parsed == Value_from_str(parts.right)
    IN  IF ~parts.some THEN [result |-> "DoesntLookLikeAnOverride", v |-> NoVal]
        ELSE IF ~parsed.ok THEN [result |-> "InvalidToml", v |-> NoVal]
        ELSE [result |-> "Ok", v |-> CVarOverride(parts.left, parsed.v)]

\* CVarOverride::from_str on the override string at hand.
ParseOverride ==
    /\ last.op = "override_string"
    /\ LET r == try_from(last.path)
       IN  last' = Op("parse_override", last.path, NoToml, r.v, r.result)
    /\ UNCHANGED <<tree, resources, cells, change_tick, panicked>>

\* A program that is handed one override string.
InitParse ==
    /\ tree = EmptyMap
    /\ resources = EmptyMap
    /\ cells = EmptyMap
    /\ change_tick = 1
    /\ panicked = NoPanic
    /\ last \in {Op("override_string", s, NoToml, NoVal, "Ok") : s \in OverrideStrings}

NextParse == ParseOverride

SpecParse == InitParse /\ [][NextParse]_vars

\* C21: parsing an override string splits it on the first '=' only.  Without
\* an '=' the result is DoesntLookLikeAnOverride; otherwise the left side is
\* the path as it stands (never InvalidPath, also when empty or malformed)
\* and the whole right side, further '=' included, is one value literal:
\* InvalidToml when malformed, the value otherwise.  noequalsign gives
\* DoesntLookLikeAnOverride, a.b=][ gives InvalidToml, a.b=3 gives (a.b, 3).
C21_SplitOnFirstEquals ==
    last.op = "parse_override"
    => LET s == last.path
           eqs == {i \in 1..Len(s) : s[i] = "="}
           k == CHOOSE i \in eqs : \A j \in eqs : i <= j
           left == [i \in 1..(k - 1) |-> s[i]]
           right == [i \in 1..(Len(s) - k) |-> s[k + i]]
       IN  /\ last.result # "InvalidPath"
           /\ eqs = {} <=> last.result = "DoesntLookLikeAnOverride"
           /\ eqs # {}
              => IF Value_from_str(right).ok
                 THEN /\ last.result = "Ok"
                      /\ last.val = CVarOverride(left, Value_from_str(right).v)
                 ELSE last.result = "InvalidToml"
           /\ s = <<"n", "o", "e", "q", "u", "a", "l", "s", "i", "g", "n">>
              => last.result = "DoesntLookLikeAnOverride"
           /\ s = <<"a", ".", "b", "=", "]", "[">> => last.result = "InvalidToml"
           /\ s = <<"a", ".", "b", "=", "3">>
              => last.val = CVarOverride(<<"a", ".", "b">>, TomlInt(0, 3))

\* C21 witness: the override ="=" is parsed: its path is empty and its value,
\* which holds a second '=', is the string "=".
C21_Witness ==
    /\ last.op = "parse_override"
    /\ last.path = <<"=", "\"", "=", "\"">>
    /\ last.result = "Ok"
    /\ last.val = CVarOverride(<<>>, TomlString(<<"=">>))

\* --------------------------------------------------------- flag operations

\* Every CVarFlags word of the width at hand.
FlagWords == 0..(2 ^ FlagWidth - 1)

\* a | b on the two flag words at hand.
FlagsBitOr ==
    /\ last.op = "flag_words"
    /\ last' = Op("bitor", <<>>, NoToml,
                  [a |-> last.val.a, b |-> last.val.b, out |-> BitOr(last.val.a, last.val.b)],
                  "Ok")
    /\ UNCHANGED <<tree, resources, cells, change_tick, panicked>>

\* a.contains(b) on the two flag words at hand.
FlagsContains ==
    /\ last.op = "flag_words"
    /\ last' = Op("contains", <<>>, NoToml,
                  [a |-> last.val.a, b |-> last.val.b, out |-> contains(last.val.a, last.val.b)],
                  "Ok")
    /\ UNCHANGED <<tree, resources, cells, change_tick, panicked>>

\* A program that is handed two flag words.
InitFlags ==
    /\ tree = EmptyMap
    /\ resources = EmptyMap
    /\ cells = EmptyMap
    /\ change_tick = 1
    /\ panicked = NoPanic
    /\ last \in {Op("flag_words", <<>>, NoToml, [a |-> a, b |-> b, out |-> 0], "Ok") :
                    a \in FlagWords, b \in FlagWords}

NextFlags == FlagsBitOr \/ FlagsContains

SpecFlags == InitFlags /\ [][NextFlags]_vars

\* Bit i of the word x is set.
BitSet(x, i) == (x \div (2 ^ i)) % 2 = 1

ConfigLayers == 9

\* Every layer of the list comes from a file: an asset, an embedded file or
\* the user config file.
FileSourced(layers) ==
    \A i \in 1..Len(layers) : layers[i].src \in {"asset", "embedded", "user"}

\* A layer of the list was loaded and holds a value at core.config_layers.
SomeLayerSetsConfigLayers(layers) ==
    \E i \in 1..Len(layers) :
        layers[i].loads /\ DocSets(layers[i].doc, CVarDecls[ConfigLayers].path)

C24_BuildLoadsConfigLayers ==
    (/\ last.op = "loader_build"
     /\ ConfigLayers \in DOMAIN resources
     /\ cells[ConfigLayers].value.v # 0)
    => \E i \in 1..Len(last.val.layers) :
          /\ last.val.layers[i].src = "asset"
          /\ last.val.layers[i].doc = cells[ConfigLayers].value.v
          /\ last.val.results[i] # "LoadFailed"

C25_MarkDefaultKeepsCreation ==
    [][\A cid \in DOMAIN cells :
          (last'.op = "set_is_default" /\ last'.path = CVarDecls[cid].path)
          => /\ cells'[cid].value = cells[cid].value
             /\ cells'[cid].added = cells[cid].added
             /\ cells'[cid].changed = cells'[cid].added
             /\ is_default(cells'[cid])]_vars

\* C26: every cvar that a cvar_collection! plugin registered with SAVED has
\* a deserializer and a serializer for its inner type, because the build
\* panics otherwise; so a set through the deserializer on a SAVED cvar never
\* returns CannotDeserialize and save_world never panics for a missing
\* serializer.
C26_SavedHasSerializers ==
    /\ panicked = NoPanic
       => \A cid \in DOMAIN resources :
             contains(resources[cid].flags, CVarFlags_SAVED)
             => CVarDecls[cid].de /\ CVarDecls[cid].ser
    /\ (/\ last.op = "register"
        /\ contains(CVarDecls[last.val.v].flags, CVarFlags_SAVED)
        /\ ~(CVarDecls[last.val.v].de /\ CVarDecls[last.val.v].ser))
       => panicked # NoPanic
    /\ (/\ last.op = "set_cvar_with_override"
        /\ RegisteredAt(last.path) # None
        /\ contains(resources[RegisteredAt(last.path)].flags, CVarFlags_SAVED))
       => last.result # "CannotDeserialize"
    /\ last.op = "save_world" => last.result # "Panic" /\ panicked = NoPanic

\* C26 witness: the SAVED cvars b and c.d are registered, b was set through
\* the deserializer, and save_world has written both into the blank document.
C26_Witness ==
    /\ last.op = "save_world"
    /\ last.result = "Ok"
    /\ last.val.before = EmptyMap
    /\ {<<"b">>, <<"c", "d">>} \subseteq DOMAIN last.val.after
    /\ cells[5].value = Val("i32", 1)

\* C28: a set that returns an error (UnknownCVar, MissingCid,
\* CannotDeserialize, FailedDeserialize, BadCVarType or FailedApply from
\* set_cvar_deserialize or set_cvar_reflect) leaves the stored value and the
\* is_default status of the target cvar, as of every cvar, as they were
\* before the call.
C28_FailedSetChangesNothing ==
    [][(/\ last'.op \in {"set_cvar_deserialize", "set_cvar_reflect"}
        /\ last'.result # "Ok")
       => \A cid \in DOMAIN cells :
             /\ cells'[cid].value = cells[cid].value
             /\ is_default(cells'[cid]) = is_default(cells[cid])]_vars

\* C29: storage cells are independent: a set, an override, set_is_default or
\* reset_to_default on the cvar at path P leaves the value and the
\* is_default status of every other registered cvar as they were, and leaves
\* the trie and the table of registrations as they were.
C29_CellsIndependent ==
    [][last'.op \in {"set_cvar_deserialize", "set_cvar_reflect", "set_cvar_with_override",
                     "write_direct", "set_is_default", "reset_to_default"}
       => /\ \A cid \in DOMAIN resources :
                resources[cid].path # last'.path
                => /\ cells'[cid].value = cells[cid].value
                   /\ is_default(cells'[cid]) = is_default(cells[cid])
          /\ DOMAIN cells' = DOMAIN cells
          /\ tree' = tree
          /\ resources' = resources]_vars

\* C29 witness: b was written at tick 2 and a.b set at tick 3: b still holds
\* what was written to it, with the ticks of that write, and a.b holds the
\* value set.
C29_Witness ==
    /\ last.op = "set_cvar_deserialize"
    /\ last.path = <<"a", "b">>
    /\ last.result = "Ok"
    /\ 1 \in DOMAIN resources /\ 5 \in DOMAIN resources
    /\ cells[1].value = Val("i32", 2) /\ cells[1].changed = 3
    /\ cells[5].value = Val("i32", 1) /\ cells[5].changed = 2
    /\ ~is_default(cells[5])

\* C30: save and load round-trip: when save_world writes the registry into a
\* blank document and the document is applied as a user config to a fresh
\* registry with the same registrations, every SAVED cvar that was not
\* default in the first registry has the same value in the second, and every
\* other cvar of the second keeps its declared default.
C30_SaveLoadRoundTrip ==
    last.op = "save_world_then_load"
    => \A cid \in DOMAIN resources :
          last.val.loaded[cid].value =
             IF contains(resources[cid].flags, CVarFlags_SAVED) /\ ~is_default(cells[cid])
             THEN cells[cid].value
             ELSE default_inner(cid)

====
